---- MODULE Spec2Model ----
(***************************************************************************)
(* The CTA engine of fustg_rs (src/src/engine.rs): a dispatcher thread     *)
(* that owns a SUB socket and routes ticks to sharded worker threads over  *)
(* mpsc channels; every worker owns the strategies of its symbols and      *)
(* pushes the orders they return on its own PUSH socket.  After the engine *)
(* come the parts that are exercised on their own, each under its own      *)
(* specification: the symbol hash (SpecHash), the rolling operators of     *)
(* src/src/operator/rolling.rs (SpecRolling), the PerformanceTracker of    *)
(* src/src/perf_tracker.rs (SpecTracker, SpecTrackerAny) and the           *)
(* Aberration strategy of src/src/strategies/aberration.rs                 *)
(* (SpecAberration), alone and with a tracker of its own (SpecPaired).     *)
(***************************************************************************)
EXTENDS Integers, Sequences, FiniteSets, TLC

(***************************************************************************)
(* Bounds of the model.                                                    *)
(***************************************************************************)
MaxWorkers == 2
MaxCalls == 5
MaxTicks == 2

(***************************************************************************)
(* Data: symbols, ticks, orders.                                           *)
(***************************************************************************)
\* A SymbolType by its two leading bytes: "rb" and "MA".
Symbols == { <<114, 98>>, <<77, 65>> }

\* The numbers of workers CtaEngine::new may be given.
WorkerCounts == 0 .. MaxWorkers

\* b is an ASCII letter (A-Z or a-z).
IsLetter(b) == (b >= 65 /\ b <= 90) \/ (b >= 97 /\ b <= 122)

\* hash_future_symbol with only the first letter kept.
hash_first_letter(symbol) ==
    IF IsLetter(symbol[1]) THEN (symbol[1] * 256) % 65536 ELSE 0

\* SymbolType::hash_future_symbol: the leading letters packed into a u16.
hash_future_symbol(symbol) ==
    LET c0 == symbol[1]
        c1 == symbol[2]
    IN  IF ~IsLetter(c0) THEN 0
        ELSE IF IsLetter(c1) THEN (c0 * 256 + c1) % 65536
        ELSE (c0 * 256) % 65536

\* What Strategy::update hands back: an Order record, whose direction and
\* offset may be NONE (no trade), or a real order.
NoOrder == [direction |-> "NONE", offset |-> "NONE"]
StrategyOutputs == { NoOrder, [direction |-> "BUY", offset |-> "OPEN"] }

NoTick == [symbol |-> <<>>, stamp |-> 0]

VARIABLES
    num_workers,      \* CtaEngine.num_workers
    senders,          \* CtaEngine.senders: the worker each Sender feeds
    handles,          \* CtaEngine.handles: the worker each JoinHandle joins
    tick_subscriber,  \* CtaEngine.tick_subscriber: "Some" or "None"
    subscribed,       \* the set_subscribe calls made on the SUB socket, in order
    stg_map,          \* CtaEngine.stg_map: symbol -> sequence of strategies
    symbol_batches,   \* CtaEngine.symbol_batches: one symbol set per shard
    pc,               \* where the thread that owns the engine is
    workers,          \* the worker threads spawned so far, in spawn order
    registered,       \* history: the add_strategy calls, <<symbol, strategy>>
    received,         \* history: the full-size frames start() received
    dispatched,       \* history: the channel sends start() made
    inits,            \* history: number of init() calls made
    stops,            \* history: number of stop() calls that returned
    backlog,          \* history: ticks not yet processed when stop() was last called
    calls,            \* number of calls made on the engine since new()
    last_call,        \* history: the method called last
    last_recv,        \* history: what recv_into last gave the call in progress
    hash_symbol,      \* the SymbolType hash_future_symbol is called on
    hash_result,      \* what the call returned: << >> before it, <<u16>> after
    roll_sum,         \* a rolling::Sum
    roll_mean,        \* a rolling::Mean of the same window
    roll_stdev,       \* a rolling::StDev of the same window
    roll_fed,         \* history: the samples fed to the three, in order
    roll_out,         \* what the last update of each returned
    tracker,          \* a PerformanceTracker
    trk_pc,           \* "ready", or how a call on the tracker broke off
    trk_log,          \* history: the calls made on the tracker, in order
    abr,              \* an Aberration strategy
    abr_log           \* history: the ticks it was updated with and what came of each

cta == << num_workers, senders, handles, tick_subscriber, subscribed, stg_map,
          symbol_batches, pc, workers, registered, received, dispatched,
          inits, stops, backlog, calls, last_call, last_recv >>

\* The state of the parts that are exercised on their own, apart from the
\* engine: the symbol hash, the rolling operators, the tracker and the
\* Aberration strategy.
hashing == << hash_symbol, hash_result >>

rolling == << roll_sum, roll_mean, roll_stdev, roll_fed, roll_out >>

tracking == << tracker, trk_pc, trk_log >>

aberration == << abr, abr_log >>

apart == << hashing, rolling, tracking, aberration >>

\* A part that is not in use.
NoHashing == hash_symbol = << >> /\ hash_result = << >>

NoRolling ==
    /\ roll_sum = << >>
    /\ roll_mean = << >>
    /\ roll_stdev = << >>
    /\ roll_fed = << >>
    /\ roll_out = << >>

NoTracking == tracker = << >> /\ trk_pc = "ready" /\ trk_log = << >>

NoAberration == abr = << >> /\ abr_log = << >>

vars == << cta, apart >>

engine == << num_workers, senders, handles, tick_subscriber, subscribed,
             stg_map, symbol_batches >>

history == << registered, received, dispatched >>

counters == << inits, stops, backlog >>

(***************************************************************************)
(* The thread that owns the engine makes the calls one after another:      *)
(* add_strategy, init and stop take &mut self and start takes &self, so no *)
(* call overlaps another; pc is "idle" between calls, "start" inside the   *)
(* receive loop, "stop" inside the join loop and "panicked" once a call    *)
(* has panicked.  The worker threads run concurrently with all of that.    *)
(***************************************************************************)

(***************************************************************************)
(* CtaEngine::new                                                          *)
(***************************************************************************)
Init ==
    /\ num_workers \in WorkerCounts
    /\ senders = << >>
    /\ handles = << >>
    /\ tick_subscriber = "Some"
    /\ subscribed = << >>
    /\ stg_map = << >>
    /\ symbol_batches = [i \in 1 .. num_workers |-> {}]
    /\ pc = "idle"
    /\ workers = << >>
    /\ registered = << >>
    /\ received = << >>
    /\ dispatched = << >>
    /\ inits = 0
    /\ stops = 0
    /\ backlog = 0
    /\ calls = 0
    /\ last_call = "new"
    /\ last_recv = "none"
    /\ NoHashing
    /\ NoRolling
    /\ NoTracking
    /\ NoAberration

(***************************************************************************)
(* CtaEngine::add_strategy                                                 *)
(***************************************************************************)
\* HashMap entry(symbol).or_insert_with(Vec::new).push(strategy)
PushStrategy(map, symbol, strategy) ==
    IF symbol \in DOMAIN map
    THEN [map EXCEPT ![symbol] = Append(@, strategy)]
    ELSE [s \in DOMAIN map \cup {symbol} |->
             IF s = symbol THEN <<strategy>> ELSE map[s]]

\* A test that lets every registration subscribe.
SubscribesAlways(symbol) == tick_subscriber = "Some"

\* The first-registration test that guards set_subscribe.
NeedsSubscribe(symbol) ==
    symbol \notin DOMAIN stg_map /\ tick_subscriber = "Some"

add_strategy(symbol) ==
    /\ pc = "idle"
    /\ calls < MaxCalls
    /\ calls' = calls + 1
    /\ last_call' = "add_strategy"
    /\ LET strategy == Len(registered) + 1
       IN  /\ subscribed' = IF NeedsSubscribe(symbol)
                            THEN Append(subscribed, symbol)
                            ELSE subscribed
           /\ stg_map' = PushStrategy(stg_map, symbol, strategy)
           /\ registered' = Append(registered, <<symbol, strategy>>)
           /\ IF num_workers = 0
              THEN \* remainder by zero panics after the strategy was stored
                   /\ pc' = "panicked"
                   /\ UNCHANGED symbol_batches
              ELSE LET worker_id == hash_future_symbol(symbol) % num_workers
                   IN  /\ symbol_batches' =
                             [symbol_batches EXCEPT ![worker_id + 1] = @ \cup {symbol}]
                       /\ UNCHANGED pc
    /\ UNCHANGED << num_workers, senders, handles, tick_subscriber, workers,
                    received, dispatched, counters >>
    /\ last_recv' = "none"
    /\ UNCHANGED apart

(***************************************************************************)
(* CtaEngine::init                                                         *)
(***************************************************************************)
\* A freshly spawned worker thread: its moved-in partial_map and its rx.
NewWorker(partial_map) ==
    [ partial_map |-> partial_map,
      rx          |-> << >>,
      cur         |-> NoTick,
      idx         |-> 0,
      exited      |-> FALSE,
      log         |-> << >> ]

\* A drain that ignores the batch and takes every symbol left in the map.
TakenAll(batch, map) == DOMAIN map

\* The symbols of one batch whose strategies are moved out of the map.
TakenBy(batch, map) == batch \cap DOMAIN map

\* The loop of init(): for each worker_id, drain its batch out of the map
\* and spawn the worker with what was drained.
RECURSIVE InitLoop(_, _, _)
InitLoop(worker_id, map, spawned) ==
    IF worker_id >= num_workers
    THEN [stg_map |-> map, spawned |-> spawned]
    ELSE LET taken == TakenBy(symbol_batches[worker_id + 1], map)
             partial_map == [s \in taken |-> map[s]]
             rest == [s \in DOMAIN map \ taken |-> map[s]]
         IN  InitLoop(worker_id + 1, rest, Append(spawned, NewWorker(partial_map)))

\* The ids (positions in workers) of the threads one init() call spawns.
SpawnedIds == [i \in 1 .. num_workers |-> Len(workers) + i]

\* What init() does to senders and handles: one push per spawned worker.
InitPush(list) == list \o SpawnedIds

init ==
    /\ pc = "idle"
    /\ calls < MaxCalls
    /\ calls' = calls + 1
    /\ last_call' = "init"
    /\ LET r == InitLoop(0, stg_map, << >>)
       IN  /\ stg_map' = r.stg_map
           /\ workers' = workers \o r.spawned
    /\ senders' = InitPush(senders)
    /\ handles' = InitPush(handles)
    /\ inits' = inits + 1
    /\ UNCHANGED << num_workers, tick_subscriber, subscribed, symbol_batches,
                    pc, history, stops, backlog >>
    /\ last_recv' = "none"
    /\ UNCHANGED apart

(***************************************************************************)
(* CtaEngine::start                                                        *)
(***************************************************************************)
\* The stamp start() has reached: ticks are numbered in arrival order.
NextTick(symbol) == [symbol |-> symbol, stamp |-> Len(received) + 1]

\* The symbols the SUB socket lets through.
SubscribedSymbols == { subscribed[i] : i \in 1 .. Len(subscribed) }

\* Entering start(): the expect() on the subscriber.
start_call ==
    /\ pc = "idle"
    /\ calls < MaxCalls
    /\ calls' = calls + 1
    /\ last_call' = "start"
    /\ pc' = IF tick_subscriber = "Some" THEN "start" ELSE "panicked"
    /\ last_recv' = "none"
    /\ UNCHANGED << engine, workers, history, counters >>
    /\ UNCHANGED apart

\* The shard a tick is routed to.
ShardOf(symbol) == hash_future_symbol(symbol) % num_workers

\* mpsc::Sender::send: the tick is queued unless the receiver is gone.
ChannelSend(ws, w, tick) ==
    IF ws[w].exited THEN ws ELSE [ws EXCEPT ![w].rx = Append(@, tick)]

\* One iteration of the loop with Ok(n), n == size_of::<TickData>().
start_recv_tick(symbol) ==
    /\ pc = "start"
    /\ Len(received) < MaxTicks
    /\ symbol \in SubscribedSymbols
    /\ LET tick == NextTick(symbol)
       IN  /\ received' = Append(received, tick)
           /\ IF num_workers = 0
              THEN /\ pc' = "panicked"
                   /\ UNCHANGED << workers, dispatched >>
              ELSE LET worker_id == ShardOf(symbol)
                   IN  IF worker_id + 1 > Len(senders)
                       THEN \* index out of bounds
                            /\ pc' = "panicked"
                            /\ UNCHANGED << workers, dispatched >>
                       ELSE /\ workers' = ChannelSend(workers, senders[worker_id + 1], tick)
                            /\ dispatched' = Append(dispatched,
                                   [tick |-> tick, index |-> worker_id,
                                    worker |-> senders[worker_id + 1],
                                    ok |-> ~workers[senders[worker_id + 1]].exited,
                                    nreg |-> Len(registered)])
                            /\ UNCHANGED pc
    /\ last_recv' = "tick"
    /\ UNCHANGED << engine, registered, counters, calls, last_call >>
    /\ UNCHANGED apart

\* Where the loop is after the Ok(n) arm for a frame of another size: the
\* arm only logs, so the loop turns again.
BreakOnWrongSize == "idle"
AfterWrongSize == "start"

\* One iteration of the loop with Ok(n), n != size_of::<TickData>().
start_recv_wrong_size ==
    /\ pc = "start"
    /\ Len(received) < MaxTicks
    /\ last_recv' = "wrong_size"
    /\ pc' = AfterWrongSize
    /\ UNCHANGED << engine, workers, history, counters, calls, last_call >>
    /\ UNCHANGED apart

\* Where the loop is after the Err(e) arm: the arm logs and breaks, whatever
\* the error and whatever came before it.
AfterRecvErr == "idle"

\* One iteration of the loop with Err(e): start() returns.
start_recv_err ==
    /\ pc = "start"
    /\ last_recv' = "error"
    /\ pc' = AfterRecvErr
    /\ UNCHANGED << engine, workers, history, counters, calls, last_call >>
    /\ UNCHANGED apart

(***************************************************************************)
(* CtaEngine::stop                                                         *)
(***************************************************************************)
\* A stop() that leaves the Senders in place.
KeepSenders(list) == list

\* senders.clear()
ClearSenders(list) == << >>

\* The ticks a worker has been sent and has not finished with.
Unprocessed(w) == Len(workers[w].rx) + (IF workers[w].cur = NoTick THEN 0 ELSE 1)

RECURSIVE SumUnprocessed(_)
SumUnprocessed(n) == IF n = 0 THEN 0 ELSE Unprocessed(n) + SumUnprocessed(n - 1)

\* stop() up to the join loop; with no handle to join it returns at once.
stop_call ==
    /\ pc = "idle"
    /\ backlog' = SumUnprocessed(Len(workers))
    /\ calls < MaxCalls
    /\ calls' = calls + 1
    /\ last_call' = "stop"
    /\ tick_subscriber' = "None"
    /\ senders' = ClearSenders(senders)
    /\ IF handles = << >>
       THEN /\ stops' = stops + 1
            /\ UNCHANGED pc
       ELSE /\ pc' = "stop"
            /\ UNCHANGED stops
    /\ UNCHANGED << num_workers, handles, subscribed, stg_map, symbol_batches,
                    workers, history, inits >>
    /\ last_recv' = "none"
    /\ UNCHANGED apart

\* A join that does not wait for the thread.
JoinableAtOnce(w) == TRUE

\* handle.join() has returned: the thread it names has ended.
Joinable(w) == workers[w].exited

\* One round of the drain loop; stop() returns after the last join.
stop_join ==
    /\ pc = "stop"
    /\ handles # << >>
    /\ Joinable(Head(handles))
    /\ handles' = Tail(handles)
    /\ IF Tail(handles) = << >>
       THEN /\ pc' = "idle"
            /\ stops' = stops + 1
       ELSE UNCHANGED << pc, stops >>
    /\ UNCHANGED << num_workers, senders, tick_subscriber, subscribed, stg_map,
                    symbol_batches, workers, history, inits, backlog, calls, last_call >>
    /\ UNCHANGED last_recv
    /\ UNCHANGED apart

(***************************************************************************)
(* The worker thread spawned by init()                                     *)
(***************************************************************************)
\* The Senders of w's channel that are still alive.
LiveSenders(w) == { i \in 1 .. Len(senders) : senders[i] = w }

\* A loop that ends as soon as every Sender is dropped, whatever is queued.
SendersDropped(w) == LiveSenders(w) = {}

\* `for tick in rx` ends: the queue is empty and every Sender is dropped.
ChannelClosed(w) == workers[w].rx = << >> /\ LiveSenders(w) = {}

\* The strategies partial_map holds for a symbol (none: the tick is skipped).
StrategiesFor(w, symbol) ==
    IF symbol \in DOMAIN workers[w].partial_map
    THEN workers[w].partial_map[symbol]
    ELSE << >>

\* A queue that hands out the newest tick first.
RxPopNewest(rx) == [tick |-> rx[Len(rx)], rest |-> SubSeq(rx, 1, Len(rx) - 1)]

\* Receiver::recv on a non-empty queue: the oldest tick, and what stays queued.
RxPop(rx) == [tick |-> Head(rx), rest |-> Tail(rx)]

\* rx yields the next tick.
worker_recv(w) ==
    /\ ~workers[w].exited
    /\ workers[w].cur = NoTick
    /\ workers[w].rx # << >>
    /\ LET tick == RxPop(workers[w].rx).tick
       IN  workers' = [workers EXCEPT
               ![w].rx = RxPop(@).rest,
               ![w].cur = IF StrategiesFor(w, tick.symbol) = << >> THEN NoTick ELSE tick,
               ![w].idx = IF StrategiesFor(w, tick.symbol) = << >> THEN 0 ELSE 1]
    /\ UNCHANGED << engine, pc, history, counters, calls, last_call >>
    /\ UNCHANGED last_recv
    /\ UNCHANGED apart

\* What one pass of the strategy loop does, as events on the worker's log:
\* strat.update(&tick), then order_pusher.send(bytes) of what it returned.
IterationEvents(tick, strat, order) ==
    << [op |-> "update", tick |-> tick, strat |-> strat, order |-> order],
       [op |-> "send", tick |-> tick, strat |-> strat, order |-> order] >>

\* One pass of `for strat in strategies.iter_mut()`.
worker_invoke(w, order) ==
    /\ ~workers[w].exited
    /\ workers[w].cur # NoTick
    /\ LET tick == workers[w].cur
           strategies == StrategiesFor(w, tick.symbol)
           i == workers[w].idx
       IN  workers' = [workers EXCEPT
               ![w].log = @ \o IterationEvents(tick, strategies[i], order),
               ![w].idx = IF i = Len(strategies) THEN 0 ELSE i + 1,
               ![w].cur = IF i = Len(strategies) THEN NoTick ELSE tick]
    /\ UNCHANGED << engine, pc, history, counters, calls, last_call >>
    /\ UNCHANGED last_recv
    /\ UNCHANGED apart

\* The channel is closed and drained: the thread leaves its loop and ends.
worker_exit(w) ==
    /\ ~workers[w].exited
    /\ workers[w].cur = NoTick
    /\ ChannelClosed(w)
    /\ workers' = [workers EXCEPT ![w].exited = TRUE]
    /\ UNCHANGED << engine, pc, history, counters, calls, last_call >>
    /\ UNCHANGED last_recv
    /\ UNCHANGED apart

(***************************************************************************)
(* The system                                                              *)
(***************************************************************************)
Next ==
    \/ \E symbol \in Symbols : add_strategy(symbol)
    \/ init
    \/ start_call
    \/ \E symbol \in Symbols : start_recv_tick(symbol)
    \/ start_recv_wrong_size
    \/ start_recv_err
    \/ stop_call
    \/ stop_join
    \/ \E w \in 1 .. Len(workers) : worker_recv(w)
    \/ \E w \in 1 .. Len(workers), order \in StrategyOutputs : worker_invoke(w, order)
    \/ \E w \in 1 .. Len(workers) : worker_exit(w)

Spec == Init /\ [][Next]_vars

(***************************************************************************)
(* Reading the histories                                                   *)
(***************************************************************************)
Range(seq) == { seq[i] : i \in 1 .. Len(seq) }

WorkerIds == 1 .. Len(workers)

IsSend(e) == e.op = "send"
IsUpdate(e) == e.op = "update"

\* The order frames a worker has put on its PUSH socket.
Pushed(wr) == SelectSeq(wr.log, IsSend)

\* The places in dispatched where start() sent a given tick.
SendsOf(tick) == { i \in 1 .. Len(dispatched) : dispatched[i].tick = tick }

\* How often a tick sits in a worker's queue.
QueuedCount(w, tick) == Cardinality({ i \in 1 .. Len(workers[w].rx) : workers[w].rx[i] = tick })

\* The worker has, or had, the tick.
Reached(w, tick) ==
    \/ QueuedCount(w, tick) > 0
    \/ workers[w].cur = tick
    \/ \E i \in 1 .. Len(workers[w].log) : workers[w].log[i].tick = tick

\* The worker is through with the tick: neither queued nor in progress.
DoneWith(w, tick) == QueuedCount(w, tick) = 0 /\ workers[w].cur # tick

(***************************************************************************)
(* C1                                                                      *)
(***************************************************************************)
\* C1: every full-size frame start() received has been sent on exactly one
\* worker channel, the one at index symbol_shard(tick.symbol) mod W; no other
\* worker ever holds the tick and it is queued only once.
C1_EachTickToItsShard ==
    \A n \in 1 .. Len(received) :
        LET tick == received[n]
        IN  /\ Cardinality(SendsOf(tick)) = 1
            /\ \A i \in SendsOf(tick) :
                  /\ dispatched[i].ok
                  /\ dispatched[i].index = hash_future_symbol(tick.symbol) % num_workers
                  /\ \A w \in WorkerIds : Reached(w, tick) => w = dispatched[i].worker
                  /\ QueuedCount(dispatched[i].worker, tick) <= 1

(***************************************************************************)
(* C2                                                                      *)
(***************************************************************************)
AllExited(ws) == \A w \in 1 .. Len(ws) : ws[w].exited

\* The frames of worker w in a list of workers (none when w is not yet spawned).
PushedIn(ws, w) == IF w <= Len(ws) THEN Pushed(ws[w]) ELSE << >>

\* C2: in the step in which stop() returns every worker thread spawned so far
\* has exited, and once a stop() has returned no step puts an order frame on
\* any PUSH socket.
C2_StoppedMeansQuiet ==
    [][ /\ (stops' = stops + 1 => AllExited(workers'))
        /\ (stops >= 1 =>
               \A w \in 1 .. Len(workers') : PushedIn(workers', w) = PushedIn(workers, w))
      ]_vars

\* stop() was called with ticks still unprocessed, has returned, and frames
\* were pushed by a worker that has exited.
C2_Witness ==
    /\ stops >= 1
    /\ pc = "idle"
    /\ backlog >= 2
    /\ \E w \in WorkerIds : workers[w].exited /\ Len(Pushed(workers[w])) >= 2

(***************************************************************************)
(* C3                                                                      *)
(***************************************************************************)
Stopped == tick_subscriber = "None" /\ senders = << >> /\ handles = << >>

\* A step a worker thread can take.
WorkerCanStep(w) ==
    /\ ~workers[w].exited
    /\ \/ workers[w].cur # NoTick
       \/ workers[w].rx # << >>
       \/ ChannelClosed(w)

\* C3: every stop() that returns leaves no subscriber, no senders and no
\* handles; a stop() called on an engine in that state returns in the same
\* step and changes nothing; and a stop() that is joining is never stuck: the
\* thread it waits for has ended or can still take a step.
C3_StopIdempotent ==
    /\ [][stops' = stops + 1 => Stopped']_vars
    /\ [][(Stopped /\ calls' = calls + 1 /\ last_call' = "stop")
            => (stops' = stops + 1 /\ pc' = "idle" /\ engine' = engine /\ workers' = workers)]_vars
    /\ [](pc = "stop" => (Joinable(Head(handles)) \/ WorkerCanStep(Head(handles))))

\* A second stop() has returned on an engine that had spawned workers.
C3_Witness == stops >= 2 /\ pc = "idle" /\ Len(workers) > 0 /\ Stopped

(***************************************************************************)
(* C4                                                                      *)
(***************************************************************************)
\* The events of a worker's log that belong to a tick.
EventsOf(w, tick) == { i \in 1 .. Len(workers[w].log) : workers[w].log[i].tick = tick }

UpdatesOf(w, tick) == { i \in EventsOf(w, tick) : IsUpdate(workers[w].log[i]) }

\* The worker has begun to invoke strategies for the tick.
Started(w, tick) == workers[w].cur = tick \/ EventsOf(w, tick) # {}

\* The worker has invoked every strategy it holds for the tick's symbol.
Finished(w, tick) ==
    /\ DoneWith(w, tick)
    /\ Cardinality(UpdatesOf(w, tick)) = Len(StrategiesFor(w, tick.symbol))

\* C4: when tick a was sent on a shard's channel before tick b, the shard's
\* worker has finished all strategies for a before it begins with b, and
\* every event of a lies before every event of b in the worker's log.
C4_ShardFifo ==
    \A i, j \in 1 .. Len(dispatched) :
        LET a == dispatched[i].tick
            b == dispatched[j].tick
            w == dispatched[i].worker
        IN  (i < j /\ dispatched[j].worker = w /\ dispatched[i].ok /\ dispatched[j].ok
                /\ Started(w, b))
            => /\ Finished(w, a)
               /\ \A p \in EventsOf(w, a), q \in EventsOf(w, b) : p < q

\* One worker was sent two ticks, the first for a symbol with two strategies,
\* and has invoked strategies for both.
C4_Witness ==
    \E i, j \in 1 .. Len(dispatched) :
        LET a == dispatched[i].tick
            b == dispatched[j].tick
            w == dispatched[i].worker
        IN  /\ i < j /\ dispatched[j].worker = w
            /\ Cardinality(UpdatesOf(w, a)) >= 2
            /\ UpdatesOf(w, b) # {}

(***************************************************************************)
(* C5                                                                      *)
(***************************************************************************)
\* The workers whose partial_map holds a strategy.
HoldersOf(ws, strategy) ==
    { w \in 1 .. Len(ws) :
        \E s \in DOMAIN ws[w].partial_map : strategy \in Range(ws[w].partial_map[s]) }

\* C5: the step init() takes leaves the engine-wide map empty and every
\* strategy registered so far in the partial_map of exactly one worker, under
\* its own symbol, and that worker is the one of shard symbol_shard mod W.
C5_InitMovesStrategiesToShards ==
    [][ (inits' = inits + 1) =>
          /\ DOMAIN stg_map' = {}
          /\ \A n \in 1 .. Len(registered') :
                LET symbol == registered'[n][1]
                    strategy == registered'[n][2]
                IN  /\ Cardinality(HoldersOf(workers', strategy)) = 1
                    /\ \A w \in HoldersOf(workers', strategy) :
                          /\ (w - 1) % num_workers = hash_future_symbol(symbol) % num_workers
                          /\ symbol \in DOMAIN workers'[w].partial_map
                          /\ Cardinality({ k \in 1 .. Len(workers'[w].partial_map[symbol]) :
                                 workers'[w].partial_map[symbol][k] = strategy }) = 1
      ]_vars

\* init() has just run with strategies registered for symbols of two shards.
C5_Witness ==
    /\ last_call = "init"
    /\ Len(registered) >= 3
    /\ DOMAIN stg_map = {}
    /\ \E v, w \in WorkerIds :
          v # w /\ DOMAIN workers[v].partial_map # {} /\ DOMAIN workers[w].partial_map # {}

(***************************************************************************)
(* C6                                                                      *)
(***************************************************************************)
\* C6: init() on an engine that is already initialised adds no worker and
\* no channel: the engine never holds more than W senders or W handles.
C6_AtMostWSendersAndHandles ==
    Len(senders) <= num_workers /\ Len(handles) <= num_workers

(***************************************************************************)
(* C7                                                                      *)
(***************************************************************************)
\* C7: add_strategy called after init() is rejected: it leaves the
\* engine-wide map, the shards' symbol sets and the subscriptions as they were.
C7_LateAddStrategyRejected ==
    [][ (inits >= 1 /\ num_workers >= 1 /\ calls' = calls + 1 /\ last_call' = "add_strategy")
          => (stg_map' = stg_map /\ symbol_batches' = symbol_batches
                 /\ subscribed' = subscribed)
      ]_vars

(***************************************************************************)
(* C8                                                                      *)
(***************************************************************************)
\* The strategies registered for a symbol by the first nreg add_strategy
\* calls, in registration order.
BoundTo(symbol, nreg) ==
    LET IsFor(r) == r[1] = symbol
        regs == SelectSeq(SubSeq(registered, 1, nreg), IsFor)
    IN  [k \in 1 .. Len(regs) |-> regs[k][2]]

\* The strategies a worker has invoked for a tick, in invocation order.
InvokedFor(w, tick) ==
    LET IsFor(e) == IsUpdate(e) /\ e.tick = tick
        evs == SelectSeq(workers[w].log, IsFor)
    IN  [k \in 1 .. Len(evs) |-> evs[k].strat]

\* C8: once the owning worker is through with a tick of symbol s it has
\* invoked exactly the strategies bound to s when the tick arrived, each once
\* and in registration order, and no other strategy.
C8_BoundStrategiesOnceInOrder ==
    \A i \in 1 .. Len(dispatched) :
        LET d == dispatched[i]
        IN  (d.ok /\ DoneWith(d.worker, d.tick))
            => InvokedFor(d.worker, d.tick) = BoundTo(d.tick.symbol, d.nreg)

(***************************************************************************)
(* C9                                                                      *)
(***************************************************************************)
\* The frames a worker pushed for one invocation of one strategy.
FramesFor(w, tick, strat) ==
    { i \in EventsOf(w, tick) : IsSend(workers[w].log[i]) /\ workers[w].log[i].strat = strat }

\* C9: for each invocation the worker pushes one frame when the strategy
\* produced an order and no frame when it produced none.
C9_FramesOnlyForOrders ==
    \A w \in WorkerIds : \A i \in 1 .. Len(workers[w].log) :
        LET e == workers[w].log[i]
        IN  IsUpdate(e) =>
               Cardinality(FramesFor(w, e.tick, e.strat)) = (IF e.order = NoOrder THEN 0 ELSE 1)

(***************************************************************************)
(* C10                                                                     *)
(***************************************************************************)
\* C10: every frame pushed for an order comes after the paired tracker's
\* on_fill(order, tick), and once a worker is through with a tick every
\* strategy of the symbol has had on_tick_end(tick) after the last update.
C10_FillBeforeSendTickEndAfterAll ==
    \A w \in WorkerIds :
        /\ \A i \in 1 .. Len(workers[w].log) :
              LET e == workers[w].log[i]
              IN  (IsSend(e) /\ e.order # NoOrder) =>
                     \E j \in 1 .. i - 1 :
                         workers[w].log[j] = [e EXCEPT !.op = "on_fill"]
        /\ \A i \in 1 .. Len(workers[w].log) :
              LET e == workers[w].log[i]
              IN  (IsUpdate(e) /\ DoneWith(w, e.tick)) =>
                     \E j \in 1 .. Len(workers[w].log) :
                         /\ workers[w].log[j].op = "on_tick_end"
                         /\ workers[w].log[j].tick = e.tick
                         /\ workers[w].log[j].strat = e.strat
                         /\ \A k \in UpdatesOf(w, e.tick) : k < j

(***************************************************************************)
(* C11                                                                     *)
(***************************************************************************)
\* C11: a start() that runs on a SUB socket stop() has dropped ends by
\* returning: it is neither left in its receive loop nor panicked.
C11_StartReturnsOnceSocketDropped ==
    (last_call = "start" /\ tick_subscriber = "None") => pc = "idle"

(***************************************************************************)
(* C12                                                                     *)
(***************************************************************************)
\* The sender start() would index for a symbol exists.
HasSender(symbol) == num_workers > 0 /\ ShardOf(symbol) + 1 <= Len(senders)

\* C12: the iteration that receives a frame of another size than a tick
\* leaves the loop running and changes nothing of the engine, the workers and
\* their channels, or the dispatch record; the tick received right after it
\* is sent to the worker of its shard like any other.
C12_WrongSizeFrameIgnored ==
    [][ /\ (last_recv # "wrong_size" /\ last_recv' = "wrong_size") =>
              /\ pc = "start" /\ pc' = "start"
              /\ engine' = engine
              /\ workers' = workers
              /\ history' = history
        /\ (last_recv = "wrong_size" /\ Len(received') = Len(received) + 1
                /\ HasSender(received'[Len(received')].symbol)) =>
              /\ pc' = "start"
              /\ Len(dispatched') = Len(dispatched) + 1
              /\ LET d == dispatched'[Len(dispatched')]
                 IN  /\ d.tick = received'[Len(received')]
                     /\ d.ok
                     /\ d.tick \in Range(workers'[d.worker].rx)
      ]_vars

\* A wrong-size frame came after a tick was dispatched, the loop is still
\* running and a worker has the earlier tick.
C12_Witness ==
    /\ last_recv = "wrong_size"
    /\ pc = "start"
    /\ Len(dispatched) >= 1
    /\ Len(received) < MaxTicks

(***************************************************************************)
(* C13                                                                     *)
(***************************************************************************)
\* C13: a receive error that does not follow another receive error (a single
\* error, not a persistent one) is skipped: the loop is still running after
\* the iteration that got it.
C13_SingleRecvErrorSkipped ==
    [][ (pc = "start" /\ last_recv # "error" /\ last_recv' = "error") => pc' = "start" ]_vars

(***************************************************************************)
(* SymbolType::hash_future_symbol on its own                               *)
(***************************************************************************)
\* The leading bytes of a symbol that the runs below draw.
HashSymbolLen == 3

\* Byte values on and beside the edges of the two letter ranges, with NUL,
\* digits and 255.
Bytes == { 0, 49, 57, 64, 65, 77, 90, 91, 96, 97, 98, 114, 122, 123, 255 }

\* "rb2505", "MA505", "9abc" and "X1" as the bytes of a SymbolType up to its
\* first NUL.
Sym_rb2505 == << 114, 98, 50, 53, 48, 53 >>
Sym_MA505 == << 77, 65, 53, 48, 53 >>
Sym_9abc == << 57, 97, 98, 99 >>
Sym_X1 == << 88, 49, 0 >>

\* The symbols hash_future_symbol is called on.
HashInputs ==
    [1 .. HashSymbolLen -> Bytes] \cup { Sym_rb2505, Sym_MA505, Sym_9abc, Sym_X1 }

\* No engine is in use while a part runs on its own.
NoEngine ==
    /\ num_workers = 0
    /\ senders = << >>
    /\ handles = << >>
    /\ tick_subscriber = "Some"
    /\ subscribed = << >>
    /\ stg_map = << >>
    /\ symbol_batches = << >>
    /\ pc = "idle"
    /\ workers = << >>
    /\ registered = << >>
    /\ received = << >>
    /\ dispatched = << >>
    /\ inits = 0
    /\ stops = 0
    /\ backlog = 0
    /\ calls = 0
    /\ last_call = "new"
    /\ last_recv = "none"

InitHash ==
    /\ NoEngine
    /\ NoRolling
    /\ NoTracking
    /\ NoAberration
    /\ hash_symbol \in HashInputs
    /\ hash_result = << >>

\* symbol.hash_future_symbol()
hash_call ==
    /\ hash_result = << >>
    /\ hash_result' = << hash_future_symbol(hash_symbol) >>
    /\ UNCHANGED << cta, hash_symbol, rolling, tracking, aberration >>

NextHash == hash_call

SpecHash == InitHash /\ [][NextHash]_vars

(***************************************************************************)
(* C14                                                                     *)
(***************************************************************************)
AsciiLetters == (65 .. 90) \cup (97 .. 122)

\* C14: the hash of a symbol with leading bytes b0, b1 is 0 when b0 is no
\* ASCII letter, b0*256 + b1 when both are letters and b0*256 when only b0
\* is; rb2505, MA505, 9abc and X1 hash to 29282, 19777, 0 and 22528; and every
\* symbol with the same two leading bytes has the same hash.
C14_HashOfLeadingLetters ==
    hash_result # << >> =>
        LET b0 == hash_symbol[1]
            b1 == hash_symbol[2]
            h == hash_result[1]
        IN  /\ (b0 \notin AsciiLetters) => h = 0
            /\ (b0 \in AsciiLetters /\ b1 \in AsciiLetters) => h = b0 * 256 + b1
            /\ (b0 \in AsciiLetters /\ b1 \notin AsciiLetters) => h = b0 * 256
            /\ (hash_symbol = Sym_rb2505) => h = 29282
            /\ (hash_symbol = Sym_MA505) => h = 19777
            /\ (hash_symbol = Sym_9abc) => h = 0
            /\ (hash_symbol = Sym_X1) => h = 22528
            /\ \A rest \in [1 .. HashSymbolLen - 2 -> Bytes] :
                  hash_future_symbol(<< b0, b1 >> \o rest) = h

\* The hash of X1, a letter followed by a digit, has been taken.
C14_Witness == hash_symbol = Sym_X1 /\ hash_result = << 22528 >>

(***************************************************************************)
(* f64 values and their arithmetic (src/src/operator/rolling.rs)           *)
(*                                                                         *)
(* A value is NaN, an infinity or a finite number; finite numbers are kept *)
(* as exact fractions n/d in lowest terms with d > 0, so the arithmetic    *)
(* below is that of f64 wherever f64 is exact.  The result of sqrt that is *)
(* no fraction is kept as the root of its radicand.                        *)
(***************************************************************************)
NaN == [k |-> "nan", n |-> 0, d |-> 1]
Inf(sign) == [k |-> "inf", n |-> sign, d |-> 1]

Abs(i) == IF i < 0 THEN -i ELSE i

RECURSIVE GCD(_, _)
GCD(a, b) == IF b = 0 THEN a ELSE GCD(b, a % b)

\* The fraction n/d, d # 0, in lowest terms.
Rat(n, d) ==
    LET g == GCD(Abs(n), Abs(d))
        s == IF d < 0 THEN -1 ELSE 1
    IN  [k |-> "fin", n |-> (s * n) \div g, d |-> (s * d) \div g]

\* usize as f64, and the literals 0.0 and 1.0.
Num(i) == [k |-> "fin", n |-> i, d |-> 1]

Sign(a) == IF a.n > 0 THEN 1 ELSE IF a.n < 0 THEN -1 ELSE 0

\* f64::is_finite
is_finite(a) == a.k \in { "fin", "sqrt" }

FNeg(a) == IF a.k = "nan" THEN NaN ELSE [a EXCEPT !.n = -a.n]

FAdd(a, b) ==
    IF a.k = "nan" \/ b.k = "nan" THEN NaN
    ELSE IF a.k = "inf" /\ b.k = "inf" THEN (IF a.n = b.n THEN a ELSE NaN)
    ELSE IF a.k = "inf" THEN a
    ELSE IF b.k = "inf" THEN b
    ELSE Rat(a.n * b.d + b.n * a.d, a.d * b.d)

FSub(a, b) == FAdd(a, FNeg(b))

FMul(a, b) ==
    IF a.k = "nan" \/ b.k = "nan" THEN NaN
    ELSE IF a.k = "inf" \/ b.k = "inf"
         THEN (IF Sign(a) = 0 \/ Sign(b) = 0 THEN NaN ELSE Inf(Sign(a) * Sign(b)))
    ELSE Rat(a.n * b.n, a.d * b.d)

\* Division as f64 does it: x/0.0 is an infinity for x # 0 and NaN for x = 0.
FDiv(a, b) ==
    IF a.k = "nan" \/ b.k = "nan" THEN NaN
    ELSE IF a.k = "inf"
         THEN (IF b.k = "inf" THEN NaN ELSE Inf(IF Sign(b) < 0 THEN -a.n ELSE a.n))
    ELSE IF b.k = "inf" THEN Num(0)
    ELSE IF b.n = 0 THEN (IF a.n = 0 THEN NaN ELSE Inf(Sign(a)))
    ELSE Rat(a.n * b.d, a.d * b.n)

IsSquare(m) == \E r \in 0 .. m : r * r = m
Root(m) == CHOOSE r \in 0 .. m : r * r = m

\* f64::sqrt: NaN for NaN and for anything below zero.
FSqrt(a) ==
    IF a.k = "nan" THEN NaN
    ELSE IF a.k = "inf" THEN (IF a.n > 0 THEN a ELSE NaN)
    ELSE IF a.n < 0 THEN NaN
    ELSE IF IsSquare(a.n) /\ IsSquare(a.d) THEN Rat(Root(a.n), Root(a.d))
    ELSE [k |-> "sqrt", n |-> a.n, d |-> a.d]

(***************************************************************************)
(* rolling::Container, Sum, Mean, StDev                                    *)
(***************************************************************************)
MaxWindow == 3
MaxUpdates == 4

\* The samples fed: finite ones, NaN and +infinity.
RollSamples == { Num(-1), Num(0), Num(2), NaN, Inf(1) }

Container_new(n) == [buf |-> [i \in 1 .. n |-> NaN], head_idx |-> 0, tail_idx |-> 0]

Container_head(self) == self.buf[self.head_idx + 1]

Container_update(self, new_val) ==
    [buf |-> [self.buf EXCEPT ![self.head_idx + 1] = new_val],
     head_idx |-> (self.head_idx + 1) % Len(self.buf),
     tail_idx |-> self.head_idx]

Sum_new(n) == [container |-> Container_new(n), nan_count |-> n, sum |-> Num(0)]

\* What Sum::update returns, with the nan_count test left out.
SumUnguarded(nan_count, sum) == sum

\* What Sum::update returns.
SumResult(nan_count, sum) == IF nan_count > 0 THEN NaN ELSE sum

\* Sum::update: the new state and the value returned.
Sum_update(self, new_val) ==
    LET old_val == Container_head(self.container)
        sum1 == IF is_finite(old_val) THEN FSub(self.sum, old_val) ELSE self.sum
        nan1 == IF is_finite(old_val) THEN self.nan_count ELSE self.nan_count - 1
        sum2 == IF is_finite(new_val) THEN FAdd(sum1, new_val) ELSE sum1
        nan2 == IF is_finite(new_val) THEN nan1 ELSE nan1 + 1
    IN  [self |-> [container |-> Container_update(self.container, new_val),
                   nan_count |-> nan2, sum |-> sum2],
         ret |-> SumResult(nan2, sum2)]

Mean_new(n) == [container |-> Container_new(n), nan_count |-> n, sum |-> Num(0)]

\* What Mean::update returns, dividing by the window length whatever it holds.
MeanOverLen(len, nan_count, sum) == FDiv(sum, Num(len))

\* What Mean::update returns.
MeanResult(len, nan_count, sum) ==
    IF nan_count > 0 THEN FDiv(sum, Num(len - nan_count)) ELSE FDiv(sum, Num(len))

\* Mean::update: the new state and the value returned.
Mean_update(self, new_val) ==
    LET old_val == Container_head(self.container)
        sum1 == IF is_finite(old_val) THEN FSub(self.sum, old_val) ELSE self.sum
        nan1 == IF is_finite(old_val) THEN self.nan_count ELSE self.nan_count - 1
        sum2 == IF is_finite(new_val) THEN FAdd(sum1, new_val) ELSE sum1
        nan2 == IF is_finite(new_val) THEN nan1 ELSE nan1 + 1
    IN  [self |-> [container |-> Container_update(self.container, new_val),
                   nan_count |-> nan2, sum |-> sum2],
         ret |-> MeanResult(Len(self.container.buf), nan2, sum2)]

StDev_new(n) == [sumer |-> Sum_new(n), sq_sumer |-> Sum_new(n), n |-> n]

\* StDev::update: the new state and the value returned.
StDev_update(self, new_val) ==
    LET s == Sum_update(self.sumer, new_val)
        q == Sum_update(self.sq_sumer, FMul(new_val, new_val))
        sum == s.ret
        sq_sum == q.ret
        variance == FDiv(FSub(sq_sum, FDiv(FMul(sum, sum), Num(self.n))),
                         FSub(Num(self.n), Num(1)))
    IN  [self |-> [sumer |-> s.self, sq_sumer |-> q.self, n |-> self.n],
         ret |-> FSqrt(variance)]

\* Sum::new(n), Mean::new(n) and StDev::new(n) for one window length.
InitRolling ==
    /\ NoEngine
    /\ NoHashing
    /\ NoTracking
    /\ NoAberration
    /\ \E n \in 1 .. MaxWindow :
          /\ roll_sum = Sum_new(n)
          /\ roll_mean = Mean_new(n)
          /\ roll_stdev = StDev_new(n)
    /\ roll_fed = << >>
    /\ roll_out = << >>

\* One sample fed to the three operators.
roll_update(new_val) ==
    /\ Len(roll_fed) < MaxUpdates
    /\ LET s == Sum_update(roll_sum, new_val)
           m == Mean_update(roll_mean, new_val)
           d == StDev_update(roll_stdev, new_val)
       IN  /\ roll_sum' = s.self
           /\ roll_mean' = m.self
           /\ roll_stdev' = d.self
           /\ roll_out' = [sum |-> s.ret, mean |-> m.ret, stdev |-> d.ret]
    /\ roll_fed' = Append(roll_fed, new_val)
    /\ UNCHANGED << cta, hashing, tracking, aberration >>

NextRolling == \E new_val \in RollSamples : roll_update(new_val)

SpecRolling == InitRolling /\ [][NextRolling]_vars

(***************************************************************************)
(* Reading the samples fed                                                 *)
(***************************************************************************)
\* The window length of the three operators.
RollN == roll_stdev.n

Updated == Len(roll_fed) > 0

\* The current window: the last N samples, fewer while the window fills.
RollWindow ==
    SubSeq(roll_fed,
           IF Len(roll_fed) > RollN THEN Len(roll_fed) - RollN + 1 ELSE 1,
           Len(roll_fed))

FiniteCount(seq) == Cardinality({ i \in 1 .. Len(seq) : is_finite(seq[i]) })

\* The sum of the finite entries of a sequence.
RECURSIVE FiniteTotal(_)
FiniteTotal(seq) ==
    IF seq = << >> THEN Num(0)
    ELSE LET rest == FiniteTotal(Tail(seq))
         IN  IF is_finite(Head(seq)) THEN FAdd(Head(seq), rest) ELSE rest

\* The sum of the squares of the entries of a sequence.
RECURSIVE SquareTotal(_)
SquareTotal(seq) ==
    IF seq = << >> THEN Num(0)
    ELSE FAdd(FMul(Head(seq), Head(seq)), SquareTotal(Tail(seq)))

\* The window is full of finite samples.
WindowAllFinite == FiniteCount(RollWindow) = RollN

(***************************************************************************)
(* C15                                                                     *)
(***************************************************************************)
\* C15: after any updates Sum returns the sum of the last N samples when all
\* of the last N are finite and a non-finite value otherwise, in particular
\* while fewer than N samples have been fed.
C15_SumOfLastN ==
    Updated =>
        IF WindowAllFinite
        THEN roll_out.sum = FiniteTotal(RollWindow)
        ELSE ~is_finite(roll_out.sum)

\* The window has wrapped, a non-finite sample has left it and a sum came out.
C15_Witness ==
    /\ Len(roll_fed) > RollN
    /\ RollN >= 2
    /\ ~is_finite(roll_fed[1])
    /\ WindowAllFinite
    /\ roll_out.sum = Num(4)

(***************************************************************************)
(* C16                                                                     *)
(***************************************************************************)
\* C16: with K the number of non-finite entries of the window (unfilled
\* slots included) Mean returns the sum of the finite entries over N - K
\* when K < N and a non-finite value when K = N.
C16_MeanOfFiniteEntries ==
    Updated =>
        LET K == RollN - FiniteCount(RollWindow)
        IN  IF K < RollN
            THEN roll_out.mean = FDiv(FiniteTotal(RollWindow), Num(RollN - K))
            ELSE ~is_finite(roll_out.mean)

\* A window of three with one non-finite entry gave the mean of the other two.
C16_Witness ==
    /\ RollN = 3
    /\ Len(roll_fed) >= 3
    /\ FiniteCount(RollWindow) = 2
    /\ roll_out.mean = Rat(1, 2)

(***************************************************************************)
(* C17                                                                     *)
(***************************************************************************)
\* The sample variance of the window as the claim writes it.
SampleVariance ==
    LET sum == FiniteTotal(RollWindow)
        sq_sum == SquareTotal(RollWindow)
    IN  FDiv(FSub(sq_sum, FDiv(FMul(sum, sum), Num(RollN))), Num(RollN - 1))

\* C17: StDev returns a non-finite value while the window holds fewer than N
\* finite samples, and otherwise a finite number, not below zero, that is the
\* square root of the sample variance of the last N samples.
C17_StDevOfLastN ==
    Updated =>
        IF ~WindowAllFinite
        THEN ~is_finite(roll_out.stdev)
        ELSE /\ is_finite(roll_out.stdev)
             /\ roll_out.stdev.n >= 0
             /\ roll_out.stdev = FSqrt(SampleVariance)

(***************************************************************************)
(* C18                                                                     *)
(***************************************************************************)
\* C18: when a finite x has been fed exactly N times to fresh operators of
\* window N, the last update returned sum = N*x, mean = x and stdev = 0.
C18_ConstantWindow ==
    (/\ Len(roll_fed) = RollN
     /\ is_finite(roll_fed[1])
     /\ \A i \in 1 .. Len(roll_fed) : roll_fed[i] = roll_fed[1]) =>
        /\ roll_out.sum = FMul(Num(RollN), roll_fed[1])
        /\ roll_out.mean = roll_fed[1]
        /\ roll_out.stdev = Num(0)

(***************************************************************************)
(* PerformanceTracker (src/src/perf_tracker.rs)                            *)
(***************************************************************************)
MaxTrackerCalls == 4

\* The contract the tracker is built for: rates are tenths, so that with the
\* multiplier of 10 fees and margins are whole numbers.
Contract ==
    [multiplier |-> Num(10),
     open_fee_rate |-> Rat(1, 10), open_fee_fixed |-> Num(1),
     close_fee_rate |-> Num(0), close_fee_fixed |-> Num(2),
     long_margin_rate |-> Rat(1, 10), long_margin_fixed |-> Num(0),
     short_margin_rate |-> Rat(2, 10), short_margin_fixed |-> Num(1)]

InitCash == Num(1000)

\* The ticks the tracker is shown: bid, ask and last price.
TrackerTicks ==
    { [bp1 |-> Num(10), ap1 |-> Num(12), last |-> Num(11)],
      [bp1 |-> Num(12), ap1 |-> Num(14), last |-> Num(12)] }

\* The orders that are filled: one lot in either direction, two lots on the
\* long side.
TrackerOrders ==
    [direction : { "BUY", "SELL" }, offset : { "OPEN", "CLOSE" }, lots : { 1 }]
        \cup [direction : { "BUY" }, offset : { "OPEN", "CLOSE" }, lots : { 2 }]

\* Position::new
Position_new(lots, price, margin_rate, margin_fixed, multiplier) ==
    LET value == FMul(FMul(price, multiplier), Num(lots))
    IN  [lots |-> lots,
         avg_price |-> price,
         margin |-> FAdd(FMul(margin_rate, value), FMul(margin_fixed, Num(lots)))]

\* Position::reduce with the margin of the slot left as it was.
ReduceKeepingMargin(self, lots_closed, close_price, margin_rate, margin_fixed, multiplier) ==
    LET closed_value == FMul(FMul(close_price, multiplier), Num(lots_closed))
        release_margin == FAdd(FMul(margin_rate, closed_value),
                               FMul(margin_fixed, Num(lots_closed)))
    IN  [self |-> [lots |-> self.lots - lots_closed,
                   avg_price |-> self.avg_price,
                   margin |-> self.margin],
         ret |-> release_margin]

\* Position::reduce for lots_closed <= self.lots: the position left and the
\* margin released.
Position_reduce(self, lots_closed, close_price, margin_rate, margin_fixed, multiplier) ==
    LET closed_value == FMul(FMul(close_price, multiplier), Num(lots_closed))
        release_margin == FAdd(FMul(margin_rate, closed_value),
                               FMul(margin_fixed, Num(lots_closed)))
        lots == self.lots - lots_closed
    IN  [self |-> [lots |-> lots,
                   avg_price |-> self.avg_price,
                   margin |-> FAdd(FMul(margin_rate,
                                        FMul(FMul(self.avg_price, multiplier), Num(lots))),
                                   FMul(margin_fixed, Num(lots)))],
         ret |-> release_margin]

\* Position::unrealized_pnl
Position_unrealized_pnl(self, last_price, multiplier, direction) ==
    LET diff == IF direction = "BUY"
                THEN FSub(last_price, self.avg_price)
                ELSE FSub(self.avg_price, last_price)
    IN  FMul(FMul(diff, multiplier), Num(self.lots))

\* PerformanceTracker::new
PerformanceTracker_new(init_cash, contract_info) ==
    [init_cash |-> init_cash,
     available_cash |-> init_cash,
     positions |-> << >>,
     contract_info |-> contract_info,
     frozen_cash |-> Num(0),
     market_value |-> init_cash,
     total_fee |-> Num(0),
     orders |-> << >>]

\* The price an order is filled at.
FillPrice(order, tick) == IF order.direction = "BUY" THEN tick.ap1 ELSE tick.bp1

\* The fee of a fill, with the open pair charged on a CLOSE too.
FillFeeOpenPair(self, order, price) ==
    LET c == self.contract_info
        value == FMul(FMul(price, c.multiplier), Num(order.lots))
    IN  FAdd(FMul(c.open_fee_rate, value), FMul(c.open_fee_fixed, Num(order.lots)))

\* The fee of a fill.
FillFee(self, order, price) ==
    LET c == self.contract_info
        fee_rate == IF order.offset = "OPEN" THEN c.open_fee_rate ELSE c.close_fee_rate
        fee_fixed == IF order.offset = "OPEN" THEN c.open_fee_fixed ELSE c.close_fee_fixed
        value == FMul(FMul(price, c.multiplier), Num(order.lots))
    IN  FAdd(FMul(fee_rate, value), FMul(fee_fixed, Num(order.lots)))

MarginRate(self, direction) ==
    IF direction = "BUY" THEN self.contract_info.long_margin_rate
    ELSE self.contract_info.short_margin_rate

MarginFixed(self, direction) ==
    IF direction = "BUY" THEN self.contract_info.long_margin_fixed
    ELSE self.contract_info.short_margin_fixed

\* The slot of the other direction.
Opposite(direction) == IF direction = "BUY" THEN "SELL" ELSE "BUY"

\* The ledger with the position written to the slot of the other direction.
PutOpposite(positions, direction, pos) ==
    [d \in DOMAIN positions \cup { Opposite(direction) } |->
        IF d = Opposite(direction) THEN pos ELSE positions[d]]

\* HashMap::insert and HashMap::remove on positions.
PutPosition(positions, direction, pos) ==
    [d \in DOMAIN positions \cup { direction } |->
        IF d = direction THEN pos ELSE positions[d]]

DropPosition(positions, direction) ==
    [d \in DOMAIN positions \ { direction } |-> positions[d]]

\* on_fill step 1: the fee is added to total_fee and taken from the cash.
ChargeFee(self, fee) ==
    [self EXCEPT !.total_fee = FAdd(@, fee), !.available_cash = FSub(@, fee)]

\* on_fill, the OPEN arm.
FillOpen(self, order, price) ==
    LET dir == order.direction
        c == self.contract_info
        pos == IF dir \in DOMAIN self.positions
               THEN self.positions[dir]
               ELSE Position_new(0, price, MarginRate(self, dir), MarginFixed(self, dir),
                                 c.multiplier)
        total_lots == pos.lots + order.lots
        new_avg == FDiv(FAdd(FMul(pos.avg_price, Num(pos.lots)),
                             FMul(price, Num(order.lots))),
                        Num(total_lots))
        margin == FAdd(FMul(MarginRate(self, dir),
                            FMul(FMul(new_avg, c.multiplier), Num(total_lots))),
                       FMul(MarginFixed(self, dir), Num(total_lots)))
    IN  [self EXCEPT
            !.positions = PutPosition(@, dir,
                              [lots |-> total_lots, avg_price |-> new_avg, margin |-> margin]),
            !.available_cash = FSub(@, FSub(margin, self.frozen_cash))]

\* on_fill, the CLOSE arm, for a slot that holds at least the lots closed.
FillClose(self, order, price) ==
    LET dir == order.direction
    IN  IF dir \notin DOMAIN self.positions THEN self
        ELSE LET r == Position_reduce(self.positions[dir], order.lots, price,
                                      MarginRate(self, dir), MarginFixed(self, dir),
                                      self.contract_info.multiplier)
             IN  [self EXCEPT
                     !.available_cash = FAdd(@, r.ret),
                     !.positions = IF r.self.lots = 0
                                   THEN DropPosition(@, dir)
                                   ELSE PutPosition(@, dir, r.self)]

\* The CLOSE takes more lots than the slot holds: self.lots -= lots_closed
\* leaves the range of u32.
Underflows(self, order) ==
    /\ order.offset = "CLOSE"
    /\ order.direction \in DOMAIN self.positions
    /\ order.lots > self.positions[order.direction].lots

\* The order meets none of the four arms of on_fill's match on
\* (direction, offset).
NoArm(order) == order.direction = "NONE" \/ order.offset = "NONE"

\* The slot an order selects as it is before the fill: << >> when absent.
SlotBefore(self, order) ==
    IF order.direction \in DOMAIN self.positions
    THEN << self.positions[order.direction] >>
    ELSE << >>

InitTracker ==
    /\ NoEngine
    /\ NoHashing
    /\ NoRolling
    /\ NoAberration
    /\ tracker = PerformanceTracker_new(InitCash, Contract)
    /\ trk_pc = "ready"
    /\ trk_log = << >>

\* PerformanceTracker::on_fill.  A subtraction that leaves u32 panics in a
\* build with overflow checks, with the fee charged and nothing else done,
\* and wraps to 2^32 - k in one without, where the margin of all the ordered
\* lots is then released to the cash.  The wrapped count is beyond the
\* integers of these runs: the slot is kept as it was and the run ends there.
\* An order of direction NONE or offset NONE meets no arm of the first match,
\* which lists BUY and SELL with OPEN and CLOSE only: the call has no path to
\* take and the run ends there with the tracker as it was.
OnFillOutcomes(self, order, tick) ==
    IF NoArm(order)
    THEN { [self |-> self, pc |-> "unmatched"] }
    ELSE LET price == FillPrice(order, tick)
             charged == ChargeFee(self, FillFee(self, order, price))
         IN  IF Underflows(self, order)
             THEN { [self |-> charged, pc |-> "panicked"],
                    [self |-> [charged EXCEPT !.available_cash =
                                  FAdd(@, Position_reduce(
                                              charged.positions[order.direction],
                                              order.lots, price,
                                              MarginRate(charged, order.direction),
                                              MarginFixed(charged, order.direction),
                                              charged.contract_info.multiplier).ret)],
                     pc |-> "wrapped"] }
             ELSE { [self |-> [(IF order.offset = "OPEN"
                                THEN FillOpen(charged, order, price)
                                ELSE FillClose(charged, order, price))
                               EXCEPT !.orders = Append(@, order)],
                     pc |-> "ready"] }

\* What the log keeps of a call of on_fill: the order, the tick, the price of
\* the fill and the slot of the order's direction before the call.
FillLogEntry(self, order, tick) ==
    IF NoArm(order)
    THEN [op |-> "on_fill", order |-> order, tick |-> tick, price |-> Num(0),
          pre |-> << >>]
    ELSE [op |-> "on_fill", order |-> order, tick |-> tick,
          price |-> FillPrice(order, tick), pre |-> SlotBefore(self, order)]

on_fill(order, tick) ==
    /\ trk_pc = "ready"
    /\ Len(trk_log) < MaxTrackerCalls
    /\ trk_log' = Append(trk_log, FillLogEntry(tracker, order, tick))
    /\ \E o \in OnFillOutcomes(tracker, order, tick) :
          /\ tracker' = o.self
          /\ trk_pc' = o.pc
    /\ UNCHANGED << cta, hashing, rolling, aberration >>

\* What a slot adds to total_unreal and to total_margin in on_tick_end:
\* nothing when it is absent.
UnrealOf(self, tick, d) ==
    IF d \notin DOMAIN self.positions THEN Num(0)
    ELSE Position_unrealized_pnl(self.positions[d],
                                 IF d = "BUY" THEN tick.ap1 ELSE tick.bp1,
                                 self.contract_info.multiplier, d)

MarginOf(self, d) ==
    IF d \notin DOMAIN self.positions THEN Num(0) ELSE self.positions[d].margin

\* PerformanceTracker::on_tick_end, as the tracker it leaves.
TickEndOutcome(self, tick) ==
    LET total_unreal == FAdd(UnrealOf(self, tick, "BUY"), UnrealOf(self, tick, "SELL"))
        total_margin == FAdd(MarginOf(self, "BUY"), MarginOf(self, "SELL"))
    IN  [self EXCEPT
            !.frozen_cash = total_margin,
            !.market_value = FAdd(FAdd(self.available_cash, total_unreal), total_margin)]

TickEndLogEntry(tick) ==
    [op |-> "on_tick_end", order |-> [direction |-> "NONE", offset |-> "NONE", lots |-> 0],
     tick |-> tick, price |-> Num(0), pre |-> << >>]

\* PerformanceTracker::on_tick_end
on_tick_end(tick) ==
    /\ trk_pc = "ready"
    /\ Len(trk_log) < MaxTrackerCalls
    /\ tracker' = TickEndOutcome(tracker, tick)
    /\ trk_log' = Append(trk_log, TickEndLogEntry(tick))
    /\ UNCHANGED << trk_pc, cta, hashing, rolling, aberration >>

NextTracker ==
    \/ \E order \in TrackerOrders, tick \in TrackerTicks : on_fill(order, tick)
    \/ \E tick \in TrackerTicks : on_tick_end(tick)

SpecTracker == InitTracker /\ [][NextTracker]_vars

\* The tracker fed with any order at all: lots of 0, direction NONE, offset
\* NONE.
AnyOrders ==
    [direction : { "NONE", "BUY", "SELL" }, offset : { "NONE", "OPEN", "CLOSE" },
     lots : { 0, 1 }]

NextTrackerAny ==
    \/ \E order \in AnyOrders, tick \in TrackerTicks : on_fill(order, tick)
    \/ \E tick \in TrackerTicks : on_tick_end(tick)

SpecTrackerAny == InitTracker /\ [][NextTrackerAny]_vars

(***************************************************************************)
(* Reading the tracker's log                                               *)
(***************************************************************************)
\* The call made last.
LastCall(log) == log[Len(log)]

\* The margin a slot holds: 0 when the slot is absent.
SlotMargin(self, direction) ==
    IF direction \in DOMAIN self.positions
    THEN self.positions[direction].margin
    ELSE Num(0)

\* The OPEN fills not yet matched by a CLOSE of the same lots at the same
\* price in the same direction, after the fills of a log; ok is FALSE once
\* a CLOSE found no such OPEN.
RECURSIVE Unmatched(_)
Unmatched(log) ==
    IF log = << >> THEN [ok |-> TRUE, open |-> << >>]
    ELSE LET before == Unmatched(SubSeq(log, 1, Len(log) - 1))
             e == LastCall(log)
             key == << e.order.direction, e.order.lots, e.price >>
             hits == { i \in 1 .. Len(before.open) : before.open[i] = key }
         IN  IF e.op # "on_fill" THEN before
             ELSE IF e.order.offset = "OPEN"
                  THEN [before EXCEPT !.open = Append(@, key)]
             ELSE IF hits = {} THEN [before EXCEPT !.ok = FALSE]
             ELSE LET i == CHOOSE h \in hits : \A g \in hits : h <= g
                  IN  [before EXCEPT
                          !.open = SubSeq(@, 1, i - 1) \o SubSeq(@, i + 1, Len(@))]

\* Every OPEN of the log has been matched and every CLOSE matched one.
Balanced(log) == Unmatched(log).ok /\ Unmatched(log).open = << >>

\* The P&L a CLOSE realizes against the slot as it was before the fill.
RealizedBy(e) ==
    IF e.op # "on_fill" \/ e.order.offset # "CLOSE" \/ e.pre = << >> THEN Num(0)
    ELSE LET pos == e.pre[1]
             lots == IF e.order.lots < pos.lots THEN e.order.lots ELSE pos.lots
             diff == IF e.order.direction = "BUY"
                     THEN FSub(e.price, pos.avg_price)
                     ELSE FSub(pos.avg_price, e.price)
         IN  FMul(FMul(diff, Contract.multiplier), Num(lots))

\* The cumulative realized P&L of a log.
RECURSIVE Realized(_)
Realized(log) ==
    IF log = << >> THEN Num(0)
    ELSE FAdd(Realized(SubSeq(log, 1, Len(log) - 1)), RealizedBy(LastCall(log)))

(***************************************************************************)
(* C19                                                                     *)
(***************************************************************************)
\* C19: an OPEN fill takes from the available cash the fee and the growth of
\* the margin of the slot the order's direction selects, new margin less the
\* margin the slot held right before the fill (0 when it was absent).
C19_OpenFreezesMarginGrowth ==
    [][ (/\ Len(trk_log') = Len(trk_log) + 1
         /\ LastCall(trk_log').op = "on_fill"
         /\ LastCall(trk_log').order.offset = "OPEN") =>
            LET dir == LastCall(trk_log').order.direction
                fee == FSub(tracker'.total_fee, tracker.total_fee)
                growth == FSub(SlotMargin(tracker', dir), SlotMargin(tracker, dir))
            IN  tracker'.available_cash =
                    FSub(tracker.available_cash, FAdd(fee, growth))
      ]_vars

(***************************************************************************)
(* C20                                                                     *)
(***************************************************************************)
\* C20: when every OPEN has been matched by a CLOSE of the same lots at the
\* same price in the same direction, with on_tick_end calls anywhere between,
\* the available cash, the realized P&L so far and the fees paid add up to
\* the initial cash.
C20_BalancedFillsConserveCash ==
    (trk_pc = "ready" /\ Balanced(trk_log)) =>
        FAdd(FAdd(tracker.available_cash, Realized(trk_log)), tracker.total_fee)
            = tracker.init_cash

(***************************************************************************)
(* Reading one fill                                                        *)
(***************************************************************************)
\* The step is an on_fill call, panicked or not.
IsFill == Len(trk_log') = Len(trk_log) + 1 /\ LastCall(trk_log').op = "on_fill"

\* The step is a CLOSE fill against a slot that is present.
IsCloseOnSlot ==
    /\ IsFill
    /\ LastCall(trk_log').order.offset = "CLOSE"
    /\ LastCall(trk_log').pre # << >>

\* The lots a slot holds: 0 when the slot is absent.
SlotLots(self, direction) ==
    IF direction \in DOMAIN self.positions THEN self.positions[direction].lots ELSE 0

\* The margin (rate*price*multiplier + fixed)*lots of a direction.
MarginFor(direction, price, lots) ==
    LET rate == IF direction = "BUY" THEN Contract.long_margin_rate
                ELSE Contract.short_margin_rate
        fixed == IF direction = "BUY" THEN Contract.long_margin_fixed
                 ELSE Contract.short_margin_fixed
    IN  FMul(FAdd(FMul(FMul(rate, price), Contract.multiplier), fixed), Num(lots))

(***************************************************************************)
(* C21                                                                     *)
(***************************************************************************)
\* C21: a CLOSE fill against a slot that is present goes through and closes
\* the smaller of the order's lots and the slot's lots: the slot is left with
\* the rest (and is dropped at zero), and the cash gets back, after the fee,
\* the margin of the closed lots only.
C21_CloseTakesMinLots ==
    [][ IsCloseOnSlot =>
            LET e == LastCall(trk_log')
                pos == e.pre[1]
                closed_lots == IF e.order.lots < pos.lots THEN e.order.lots ELSE pos.lots
                fee == FSub(tracker'.total_fee, tracker.total_fee)
            IN  /\ trk_pc' = "ready"
                /\ SlotLots(tracker', e.order.direction) = pos.lots - closed_lots
                /\ (pos.lots = closed_lots) => e.order.direction \notin DOMAIN tracker'.positions
                /\ tracker'.available_cash =
                       FAdd(FSub(tracker.available_cash, fee),
                            MarginFor(e.order.direction, e.price, closed_lots))
      ]_vars

(***************************************************************************)
(* C22                                                                     *)
(***************************************************************************)
\* C22: a CLOSE fill against a slot that is present adds to the available
\* cash, besides the released margin and less the fee, the realized P&L of
\* the lots closed: (p - a)*m*L for the long slot and (a - p)*m*L for the
\* short one.
C22_CloseRealizesPnl ==
    [][ (IsCloseOnSlot /\ trk_pc' = "ready") =>
            LET e == LastCall(trk_log')
                fee == FSub(tracker'.total_fee, tracker.total_fee)
                released == MarginFor(e.order.direction, e.price, e.order.lots)
            IN  tracker'.available_cash =
                    FAdd(FAdd(FSub(tracker.available_cash, fee), released), RealizedBy(e))
      ]_vars

(***************************************************************************)
(* C23                                                                     *)
(***************************************************************************)
\* The fee the contract sets for a logged fill:
\* (fee_rate*price*multiplier + fee_fixed)*lots, at ap1 for BUY and bp1 for
\* SELL, with the open pair for OPEN and the close pair for CLOSE.
FeeOf(e) ==
    LET price == IF e.order.direction = "BUY" THEN e.tick.ap1 ELSE e.tick.bp1
        fee_rate == IF e.order.offset = "OPEN" THEN Contract.open_fee_rate
                    ELSE Contract.close_fee_rate
        fee_fixed == IF e.order.offset = "OPEN" THEN Contract.open_fee_fixed
                     ELSE Contract.close_fee_fixed
    IN  FMul(FAdd(FMul(FMul(fee_rate, price), Contract.multiplier), fee_fixed),
             Num(e.order.lots))

\* C23: every fill of direction BUY or SELL and offset OPEN or CLOSE adds its
\* fee to total_fee and takes it from the available cash; a CLOSE whose slot
\* is absent changes the cash by the fee only and leaves the positions and
\* the other amounts as they were.
C23_FeeChargedOnEveryFill ==
    [][ IsFill =>
            LET e == LastCall(trk_log')
                fee == FeeOf(e)
                absent == e.order.offset = "CLOSE" /\ e.pre = << >>
            IN  /\ tracker'.total_fee = FAdd(tracker.total_fee, fee)
                /\ (e.order.offset = "CLOSE" /\ trk_pc' = "ready") =>
                       tracker'.available_cash =
                           FAdd(FSub(tracker.available_cash, fee),
                                IF absent THEN Num(0)
                                ELSE MarginFor(e.order.direction, e.price, e.order.lots))
                /\ (e.order.offset = "OPEN") =>
                       tracker'.available_cash =
                           FSub(FSub(tracker.available_cash, fee),
                                FSub(tracker'.positions[e.order.direction].margin,
                                     tracker.frozen_cash))
                /\ absent =>
                       /\ trk_pc' = "ready"
                       /\ tracker'.positions = tracker.positions
                       /\ tracker'.frozen_cash = tracker.frozen_cash
                       /\ tracker'.market_value = tracker.market_value
                       /\ tracker'.init_cash = tracker.init_cash
      ]_vars

\* A long slot opened at 12 for a fee of 13, then a SELL CLOSE of 1 lot that
\* finds no short slot and costs its fee of 2.
C23_Witness ==
    /\ trk_pc = "ready"
    /\ Len(trk_log) = 2
    /\ trk_log[2].op = "on_fill"
    /\ trk_log[2].order = [direction |-> "SELL", offset |-> "CLOSE", lots |-> 1]
    /\ Len(trk_log[2].pre) = 0
    /\ DOMAIN tracker.positions = { "BUY" }
    /\ tracker.total_fee = Num(15)

(***************************************************************************)
(* C24                                                                     *)
(***************************************************************************)
\* C24: after any sequence of fills, of any lots and 0 lots among them, the
\* ledger holds an entry for a direction exactly when lots of that direction
\* are open: no entry of 0 lots is ever left in the ledger.
C24_EntryIffLotsOpen ==
    \A d \in DOMAIN tracker.positions : tracker.positions[d].lots > 0

UnrealAt(self, price, direction) ==
    IF direction \notin DOMAIN self.positions THEN Num(0)
    ELSE LET pos == self.positions[direction]
             diff == IF direction = "BUY" THEN FSub(price, pos.avg_price)
                     ELSE FSub(pos.avg_price, price)
         IN  FMul(FMul(diff, Contract.multiplier), Num(pos.lots))

\* C26: right after on_tick_end(tick) the reported equity is the available
\* cash plus the unrealized P&L of both slots valued against tick.last plus
\* the margin of both slots.
C26_EquityAgainstLast ==
    (Len(trk_log) > 0 /\ LastCall(trk_log).op = "on_tick_end") =>
        LET tick == LastCall(trk_log).tick
        IN  tracker.market_value =
                FAdd(FAdd(tracker.available_cash,
                          FAdd(UnrealAt(tracker, tick.last, "BUY"),
                               UnrealAt(tracker, tick.last, "SELL"))),
                     FAdd(SlotMargin(tracker, "BUY"), SlotMargin(tracker, "SELL")))

(***************************************************************************)
(* C27                                                                     *)
(***************************************************************************)
\* C27: a fill whose order has direction NONE or offset NONE is ignored: the
\* call goes through and leaves every field of the tracker as it was.
C27_NoneOrderIgnored ==
    [][ (IsFill /\ (LastCall(trk_log').order.direction = "NONE"
                      \/ LastCall(trk_log').order.offset = "NONE")) =>
            (trk_pc' = "ready" /\ tracker' = tracker)
      ]_vars

(***************************************************************************)
(* C28                                                                     *)
(***************************************************************************)
\* C28: a fill works on the slot of its order's own direction, BUY on the
\* long slot and SELL on the short one, for OPEN and for CLOSE alike: that
\* slot takes the lots opened or gives the lots closed, and the slot of the
\* other direction keeps its presence, lots, average price and margin.
C28_FillTouchesOwnSlotOnly ==
    [][ IsFill =>
            LET e == LastCall(trk_log')
                own == e.order.direction
                other == Opposite(own)
            IN  /\ (other \in DOMAIN tracker'.positions) = (other \in DOMAIN tracker.positions)
                /\ (other \in DOMAIN tracker.positions) =>
                       tracker'.positions[other] = tracker.positions[other]
                /\ (e.order.offset = "OPEN") =>
                       SlotLots(tracker', own) = SlotLots(tracker, own) + e.order.lots
                /\ (e.order.offset = "CLOSE" /\ Len(e.pre) > 0 /\ trk_pc' = "ready") =>
                       SlotLots(tracker', own) = SlotLots(tracker, own) - e.order.lots
      ]_vars

\* Both slots opened with one lot, then a BUY CLOSE of one lot: the long slot
\* is gone and the short slot is as it was opened, one lot at the bid of 10.
C28_Witness ==
    /\ trk_pc = "ready"
    /\ Len(trk_log) = 3
    /\ trk_log[3].order = [direction |-> "BUY", offset |-> "CLOSE", lots |-> 1]
    /\ Len(trk_log[3].pre) = 1
    /\ DOMAIN tracker.positions = { "SELL" }
    /\ tracker.positions["SELL"].lots = 1
    /\ tracker.positions["SELL"].avg_price = Num(10)

(***************************************************************************)
(* Aberration (src/src/strategies/aberration.rs)                           *)
(***************************************************************************)
MaxAbrWindow == 6
MaxAbrTicks == 12

\* The ticks the strategy is shown: last price, bid and ask.
AbrTicks ==
    { [last |-> Num(10), bp1 |-> Num(9), ap1 |-> Num(11)],
      [last |-> Num(20), bp1 |-> Num(19), ap1 |-> Num(21)],
      [last |-> NaN, bp1 |-> NaN, ap1 |-> NaN] }

\* a < b with a NaN on either side taken to compare as true.
FLtOrNaN(a, b) ==
    IF a.k = "nan" \/ b.k = "nan" THEN TRUE
    ELSE IF a.k = "inf" THEN a.n < 0 /\ ~(b.k = "inf" /\ b.n < 0)
    ELSE IF b.k = "inf" THEN b.n > 0
    ELSE a.n * b.d < b.n * a.d

\* a < b on f64: false whenever either side is NaN.
FLt(a, b) ==
    IF a.k = "nan" \/ b.k = "nan" THEN FALSE
    ELSE IF a.k = "inf" THEN a.n < 0 /\ ~(b.k = "inf" /\ b.n < 0)
    ELSE IF b.k = "inf" THEN b.n > 0
    ELSE a.n * b.d < b.n * a.d

\* last > ma + stdev: a band of one deviation.
AboveOneDeviation(last, ma, stdev) ==
    IF stdev.k = "sqrt"
    THEN LET diff == FSub(last, ma)
         IN  /\ diff.k = "fin"
             /\ diff.n > 0
             /\ FLt(Rat(stdev.n, stdev.d), FMul(diff, diff))
    ELSE FLt(FAdd(ma, stdev), last)

\* last > ma + 2.0*stdev.  A stdev that is the root of n/d comes out of a
\* window of finite entries, last among them, so last and ma are finite
\* then: the test is last - ma > 0 and (last - ma)^2 > 4*n/d.
AboveBand(last, ma, stdev) ==
    IF stdev.k = "sqrt"
    THEN LET diff == FSub(last, ma)
         IN  /\ diff.k = "fin"
             /\ diff.n > 0
             /\ FLt(FMul(Num(4), Rat(stdev.n, stdev.d)), FMul(diff, diff))
    ELSE FLt(FAdd(ma, FMul(Num(2), stdev)), last)

\* last < ma - 2.0*stdev
BelowBand(last, ma, stdev) ==
    IF stdev.k = "sqrt"
    THEN LET diff == FSub(ma, last)
         IN  /\ diff.k = "fin"
             /\ diff.n > 0
             /\ FLt(FMul(Num(4), Rat(stdev.n, stdev.d)), FMul(diff, diff))
    ELSE FLt(last, FSub(ma, FMul(Num(2), stdev)))

\* Aberration::new
Aberration_new(ma_len) ==
    [ma |-> Mean_new(ma_len), stdev |-> StDev_new(ma_len), position |-> 0]

\* An order of one lot that is a BUY whatever direction is asked for.
AbrOrderBuy(direction, offset, price) ==
    [direction |-> "BUY", offset |-> offset, lots |-> 1, price |-> price]

\* The order of one lot the strategy returns.
AbrOrder(direction, offset, price) ==
    [direction |-> direction, offset |-> offset, lots |-> 1, price |-> price]

\* The long position closed whenever it is held.
CloseLongAlways(last, ma) == TRUE

\* The long position is closed when last is under the mean.
CloseLong(last, ma) == FLt(last, ma)

\* Aberration::update: the new state and what is returned, << >> for None
\* and << order >> for Some(order).
Aberration_update(self, tick) ==
    LET m == Mean_update(self.ma, tick.last)
        d == StDev_update(self.stdev, tick.last)
        ma == m.ret
        stdev == d.ret
        fed == [self EXCEPT !.ma = m.self, !.stdev = d.self]
    IN  IF self.position > 0 /\ CloseLong(tick.last, ma)
        THEN [self |-> [fed EXCEPT !.position = 0],
              ret |-> << AbrOrder("SELL", "CLOSE", tick.bp1) >>]
        ELSE IF self.position < 0 /\ FLt(ma, tick.last)
        THEN [self |-> [fed EXCEPT !.position = 0],
              ret |-> << AbrOrder("BUY", "CLOSE", tick.ap1) >>]
        ELSE IF self.position = 0 /\ AboveBand(tick.last, ma, stdev)
        THEN [self |-> [fed EXCEPT !.position = 1],
              ret |-> << AbrOrder("BUY", "OPEN", tick.ap1) >>]
        ELSE IF self.position = 0 /\ BelowBand(tick.last, ma, stdev)
        THEN [self |-> [fed EXCEPT !.position = -1],
              ret |-> << AbrOrder("SELL", "OPEN", tick.bp1) >>]
        ELSE [self |-> fed, ret |-> << >>]

\* The window length a strategy was made with.
AbrWindow(self) == Len(self.ma.container.buf)

InitAberration ==
    /\ NoEngine
    /\ NoHashing
    /\ NoRolling
    /\ NoTracking
    /\ \E ma_len \in 1 .. MaxAbrWindow : abr = Aberration_new(ma_len)
    /\ abr_log = << >>

\* One tick handed to the strategy.  The log keeps the tick, the mean and the
\* standard deviation the call computed, the flag it found and what it
\* returned.  A run lasts two turns of the window at most.
abr_update(tick) ==
    /\ Len(abr_log) < MaxAbrTicks
    /\ Len(abr_log) < 2 * AbrWindow(abr)
    /\ LET r == Aberration_update(abr, tick)
       IN  /\ abr' = r.self
           /\ abr_log' = Append(abr_log,
                   [tick |-> tick,
                    ma |-> Mean_update(abr.ma, tick.last).ret,
                    stdev |-> StDev_update(abr.stdev, tick.last).ret,
                    s |-> abr.position,
                    out |-> r.ret])
    /\ UNCHANGED << cta, hashing, rolling, tracking >>

\* No tick without a price has been fed yet.
NoGapYet == \A i \in 1 .. Len(abr_log) : is_finite(abr_log[i].tick.last)

\* A stream holds at most one tick without a price.
NextAberration ==
    \E tick \in AbrTicks : (is_finite(tick.last) \/ NoGapYet) /\ abr_update(tick)

SpecAberration == InitAberration /\ [][NextAberration]_vars

(***************************************************************************)
(* Reading the strategy's log                                              *)
(***************************************************************************)
\* The flag the strategy holds after the i-th update.
FlagAfter(i) == IF i < Len(abr_log) THEN abr_log[i + 1].s ELSE abr.position

\* The i-th update returned one order of one lot, of this direction and
\* offset.
Emitted(i, direction, offset) ==
    /\ Len(abr_log[i].out) = 1
    /\ abr_log[i].out[1].direction = direction
    /\ abr_log[i].out[1].offset = offset
    /\ abr_log[i].out[1].lots = 1

(***************************************************************************)
(* C29                                                                     *)
(***************************************************************************)
\* C29: every update follows the reference rules on p = tick.last, the mean
\* and the stdev of that update and the flag s: s = +1 and p < mean gives
\* (SELL, CLOSE, 1) and s = 0; s = -1 and p > mean gives (BUY, CLOSE, 1) and
\* s = 0; s = 0 and p > mean + 2*stdev gives (BUY, OPEN, 1) and s = +1; s = 0
\* and p < mean - 2*stdev gives (SELL, OPEN, 1) and s = -1; in every other
\* case nothing is returned and s stays.  No update returns more than one
\* order, and one that closes leaves the flag at 0.
C29_ReferenceRules ==
    \A i \in 1 .. Len(abr_log) :
        LET e == abr_log[i]
            p == e.tick.last
            closeLong == e.s = 1 /\ FLt(p, e.ma)
            closeShort == e.s = -1 /\ FLt(e.ma, p)
            openLong == e.s = 0 /\ AboveBand(p, e.ma, e.stdev)
            openShort == e.s = 0 /\ BelowBand(p, e.ma, e.stdev)
        IN  /\ e.s \in { -1, 0, 1 }
            /\ Len(e.out) <= 1
            /\ closeLong => (Emitted(i, "SELL", "CLOSE") /\ FlagAfter(i) = 0)
            /\ closeShort => (Emitted(i, "BUY", "CLOSE") /\ FlagAfter(i) = 0)
            /\ openLong => (Emitted(i, "BUY", "OPEN") /\ FlagAfter(i) = 1)
            /\ openShort => (Emitted(i, "SELL", "OPEN") /\ FlagAfter(i) = -1)
            /\ ~(closeLong \/ closeShort \/ openLong \/ openShort) =>
                   (Len(e.out) = 0 /\ FlagAfter(i) = e.s)

\* Five ticks at 10 and one at 20 on a window of six open a long position;
\* the next tick at 10 closes it.
C29_Witness ==
    /\ Len(abr_log) = MaxAbrWindow + 1
    /\ Emitted(MaxAbrWindow, "BUY", "OPEN")
    /\ Emitted(MaxAbrWindow + 1, "SELL", "CLOSE")
    /\ abr.position = 0

TickAt(price) == [last |-> Num(price), bp1 |-> Num(price - 1), ap1 |-> Num(price + 1)]

\* What a strategy returns, update by update, on a stream of ticks.
RECURSIVE AbrOutsFrom(_, _)
AbrOutsFrom(self, stream) ==
    IF Len(stream) = 0 THEN << >>
    ELSE LET r == Aberration_update(self, Head(stream))
         IN  << r.ret >> \o AbrOutsFrom(r.self, Tail(stream))

\* What a fresh strategy of window 3 returns on a stream of prices.
OutsAtThree(prices) ==
    AbrOutsFrom(Aberration_new(3), [i \in 1 .. Len(prices) |-> TickAt(prices[i])])

\* Some update returned an OPEN and a later one the CLOSE that matches it.
OpensThenCloses(outs) ==
    \E i, j \in 1 .. Len(outs) :
        /\ i < j
        /\ Len(outs[i]) = 1 /\ outs[i][1].offset = "OPEN"
        /\ Len(outs[j]) = 1 /\ outs[j][1].offset = "CLOSE"
        /\ outs[j][1].direction # outs[i][1].direction

C32_NoTickLostOnShutdown ==
    \A i \in 1 .. Len(dispatched) :
        LET tick == dispatched[i].tick
            w == dispatched[i].worker
        IN  dispatched[i].ok =>
                /\ workers[w].exited => Finished(w, tick)
                /\ stops >= 1 => (workers[w].exited /\ Finished(w, tick))

\* stop() was called while two ticks sat unprocessed on one shard, one of
\* them for a symbol with strategies bound, and has returned with both run.
C32_Witness ==
    /\ stops >= 1
    /\ backlog >= 2
    /\ Len(dispatched) >= 2
    /\ \A i \in 1 .. Len(dispatched) :
           /\ dispatched[i].ok
           /\ dispatched[i].worker = dispatched[1].worker
           /\ Finished(dispatched[i].worker, dispatched[i].tick)
    /\ \E i \in 1 .. Len(dispatched) :
           UpdatesOf(dispatched[i].worker, dispatched[i].tick) # {}

(***************************************************************************)
(* C33                                                                     *)
(***************************************************************************)
\* The symbols registered so far, each at its first registration, in order.
RECURSIVE FirstRegistrations(_)
FirstRegistrations(n) ==
    IF n = 0 THEN << >>
    ELSE LET before == FirstRegistrations(n - 1)
             symbol == registered[n][1]
         IN  IF symbol \in Range(before) THEN before ELSE Append(before, symbol)

\* C33: while init() has not been called and the engine holds its SUB
\* socket, the subscriptions made are those of the first registration of
\* each symbol, one per symbol and in that order: no later registration of a
\* symbol subscribes again.
C33_SubscribedOncePerSymbol ==
    (inits = 0 /\ tick_subscriber = "Some") =>
        subscribed = FirstRegistrations(Len(registered))

\* Four registrations before init(), both symbols among them: two
\* subscriptions.
C33_Witness ==
    /\ inits = 0
    /\ tick_subscriber = "Some"
    /\ Len(registered) = 4
    /\ registered[1][1] = registered[3][1]
    /\ registered[2][1] # registered[1][1]
    /\ Len(subscribed) = 2

(***************************************************************************)
(* C34                                                                     *)
(***************************************************************************)
\* The updates before the i-th that returned an order.
OrdersBefore(i) == { j \in 1 .. i - 1 : Len(abr_log[j].out) = 1 }

\* The last of them.
LastOrderBefore(i) == CHOOSE j \in OrdersBefore(i) : \A k \in OrdersBefore(i) : k <= j

\* C34: in the orders one strategy returns, OPEN and CLOSE alternate and the
\* first is an OPEN; a CLOSE has the direction opposite to the OPEN before it
\* (BUY OPEN then SELL CLOSE, SELL OPEN then BUY CLOSE); the flag is always
\* -1, 0 or +1.
C34_OpenCloseAlternate ==
    /\ abr.position \in { -1, 0, 1 }
    /\ \A i \in 1 .. Len(abr_log) :
           Len(abr_log[i].out) = 1 =>
               LET order == abr_log[i].out[1]
               IN  IF OrdersBefore(i) = {}
                   THEN order.offset = "OPEN"
                   ELSE LET prev == abr_log[LastOrderBefore(i)].out[1]
                        IN  /\ order.offset # prev.offset
                            /\ order.offset \in { "OPEN", "CLOSE" }
                            /\ order.offset = "CLOSE" =>
                                   /\ order.direction \in { "BUY", "SELL" }
                                   /\ order.direction # prev.direction

\* A long position opened at the sixth tick and closed at the seventh, and
\* after four more ticks at 10 a long position opened again at the twelfth.
C34_Witness ==
    /\ Len(abr_log) = 12
    /\ Emitted(6, "BUY", "OPEN")
    /\ Emitted(7, "SELL", "CLOSE")
    /\ \A i \in 8 .. 11 : Len(abr_log[i].out) = 0
    /\ Emitted(12, "BUY", "OPEN")
    /\ abr.position = 1

\* ---------------------------------------------------------------------------
\* One Aberration with its own PerformanceTracker.  The engine's worker in
\* engine.rs calls no tracker; the loop that hands a strategy's orders to its
\* tracker is the worker loop as the specification describes it: update the
\* strategy with the tick, call on_fill with the order if one came out, and
\* call on_tick_end after that.
\* ---------------------------------------------------------------------------

\* What the tracker reads of an order: on_fill takes its price from the tick.
PairedOrder(order) ==
    [direction |-> order.direction, offset |-> order.offset, lots |-> order.lots]

InitPaired ==
    /\ NoEngine
    /\ NoHashing
    /\ NoRolling
    /\ \E ma_len \in 1 .. MaxAbrWindow : abr = Aberration_new(ma_len)
    /\ abr_log = << >>
    /\ tracker = PerformanceTracker_new(InitCash, Contract)
    /\ trk_pc = "ready"
    /\ trk_log = << >>

paired_tick(tick) ==
    /\ trk_pc = "ready"
    /\ Len(abr_log) < MaxAbrTicks
    /\ Len(abr_log) < 2 * AbrWindow(abr)
    /\ LET r == Aberration_update(abr, tick)
       IN  /\ abr' = r.self
           /\ abr_log' = Append(abr_log,
                              [tick |-> tick,
                               ma |-> Mean_update(abr.ma, tick.last).ret,
                               stdev |-> StDev_update(abr.stdev, tick.last).ret,
                               s |-> abr.position,
                               out |-> r.ret])
           /\ IF r.ret = << >>
              THEN /\ tracker' = TickEndOutcome(tracker, tick)
                   /\ trk_log' = Append(trk_log, TickEndLogEntry(tick))
                   /\ trk_pc' = trk_pc
              ELSE LET order == PairedOrder(r.ret[1])
                   IN  \E o \in OnFillOutcomes(tracker, order, tick) :
                          /\ trk_pc' = o.pc
                          /\ IF o.pc = "ready"
                             THEN /\ tracker' = TickEndOutcome(o.self, tick)
                                  /\ trk_log' = trk_log \o
                                         << FillLogEntry(tracker, order, tick),
                                            TickEndLogEntry(tick) >>
                             ELSE /\ tracker' = o.self
                                  /\ trk_log' = Append(trk_log,
                                                       FillLogEntry(tracker, order, tick))
    /\ UNCHANGED << cta, hashing, rolling >>

NextPaired == \E tick \in AbrTicks : (is_finite(tick.last) \/ NoGapYet) /\ paired_tick(tick)

SpecPaired == InitPaired /\ [][NextPaired]_vars

\* The lots the tracker holds on one side.
LedgerLots(d) == IF d \in DOMAIN tracker.positions THEN tracker.positions[d].lots ELSE 0

\* C35: after every tick of an Aberration whose orders are filled on its own
\* tracker, the ledger agrees with the position flag: flag 0 with no lot on
\* either side, flag +1 with exactly one long lot and no short one, flag -1
\* with exactly one short lot and no long one.
C35_LedgerAgreesWithFlag ==
    trk_pc = "ready" =>
        /\ abr.position = 0 => (LedgerLots("BUY") = 0 /\ LedgerLots("SELL") = 0)
        /\ abr.position = 1 => (LedgerLots("BUY") = 1 /\ LedgerLots("SELL") = 0)
        /\ abr.position = -1 => (LedgerLots("SELL") = 1 /\ LedgerLots("BUY") = 0)

\* C36: whenever start() has taken a full-size tick off the socket, the shard
\* index it computes for it, symbol_shard(tick.symbol) mod W, names a sender
\* that exists: W is not zero and the index is below the length of the sender
\* list, whatever calls were made before.
C36_DispatchIndexInRange ==
    (last_recv = "tick" /\ pc \in { "start", "panicked" }) =>
        /\ num_workers # 0
        /\ ShardOf(received[Len(received)].symbol) < Len(senders)

====
